---- MODULE Spec2Model ----
(***************************************************************************)
(* A model of src/src/main.rs: the Huffman coder HuffmanEncoding            *)
(* (add_value, encode, decode), the code word HuffmanUnitCode (add_msb),    *)
(* and the free functions take_smallest, quick_sort and partition.          *)
(*                                                                         *)
(* A u64 is modelled as the set of the positions of its one bits            *)
(* (a subset of 0..63): x | y is the union, x & !(1 << n) removes n, and     *)
(* the shifts move positions and drop the ones that leave the word.         *)
(* An Option<T> is a sequence of length 0 (None) or 1 (Some).               *)
(* A HashMap is a function; the order in which a HashMap is iterated is     *)
(* not fixed by the program and is a nondeterministic choice.               *)
(***************************************************************************)
EXTENDS Integers, Sequences, FiniteSets, TLC

VARIABLES
    data,            \* HuffmanEncoding.data: a sequence of u64 words
    number_of_bits,  \* HuffmanEncoding.number_of_bits
    map,             \* HuffmanEncoding.map: symbol -> HuffmanUnitCode
    text,            \* the argument of the last encode call that returned
    encoded,         \* whether encode has been called on the object
    extra,           \* add_value calls made by the caller since new / encode
    calls,           \* every add_value call since the buffer was last empty
    op,              \* the last call made on the object
    outcome,         \* how that call ended: "ok" or the panic it ended in
    result,          \* what the last decode returned
    pending,         \* number_of_bits of decode's candidate when it returned
    input,           \* the text given to get_huffman_encoding
    leaves,          \* construct_huffman_tree: leaves
    inter,           \* construct_huffman_tree: intermediate_nodes
    one,             \* construct_huffman_tree: one (an Option)
    two,             \* construct_huffman_tree: two (an Option)
    root,            \* construct_huffman_tree: the root it returned (an Option)
    pc,              \* the position inside get_huffman_encoding
    table,           \* what get_huffman_encoding returned
    last_take        \* the two lists as the last take_smallest call found them

objvars == <<data, number_of_bits, map, text, encoded, extra, calls, op,
             outcome, result, pending>>
treevars == <<input, leaves, inter, one, two, root, pc, table, last_take>>
vars == <<data, number_of_bits, map, text, encoded, extra, calls, op,
          outcome, result, pending, input, leaves, inter, one, two, root,
          pc, table, last_take>>

-----------------------------------------------------------------------------
(* Bounds of the model. *)

\* The longest word a text is made of.
MaxLen == 3
\* How often a word is repeated to make a text longer than one u64.
RepLong == 14
\* add_value calls the caller makes around an encode.
MaxExtra == 1
\* add_value calls on an empty buffer.
MaxCalls == 4
\* The largest number of occurrences of one symbol in a run text.
MaxCount == 3

-----------------------------------------------------------------------------
(* u64 words *)

\* The width of a storage word, u64.
WordBits == 64

\* value << k on a u64: the bits shifted out of the word are lost.
Shl(value, k) == {i + k : i \in {j \in value : j + k < WordBits}}

\* value >> k on a u64.
Shr(value, k) == {i - k : i \in {j \in value : j >= k}}

\* The empty map, HashMap::new().
EmptyMap == [x \in {} |-> {}]

\* Some(x) and None.
Some(x) == <<x>>
None == <<>>

-----------------------------------------------------------------------------
(* HuffmanEncoding::add_value *)

\* The same, but a value that does not fit in the current word loses its
\* high-order bits: no second word is pushed.
add_value_no_split(d, nb, value, n) ==
    LET fresh == (nb % WordBits = 0)
        d1 == IF fresh THEN Append(d, {}) ELSE d
        nb1 == IF fresh /\ Len(d1) = 1 THEN 0 ELSE nb
        taken_bits == nb1 % WordBits
        d2 == [d1 EXCEPT ![Len(d1)] = @ \cup Shl(value, taken_bits)]
    IN  [data |-> d2, number_of_bits |-> nb1 + n]

\* The same, but the next word is pushed as soon as the current one is full.
add_value_eager(d, nb, value, n) ==
    LET fresh == (nb % WordBits = 0)
        d1 == IF fresh THEN Append(d, {}) ELSE d
        nb1 == IF fresh /\ Len(d1) = 1 THEN 0 ELSE nb
        taken_bits == nb1 % WordBits
        remaining_bits == WordBits - taken_bits
        d2 == [d1 EXCEPT ![Len(d1)] = @ \cup Shl(value, taken_bits)]
        d3 == IF n >= remaining_bits
              THEN Append(d2, Shr(value, remaining_bits))
              ELSE d2
    IN  [data |-> d3, number_of_bits |-> nb1 + n]

\* add_value(value, number_of_bits) on an object with data d and
\* number_of_bits nb: the object's new data and number_of_bits.
\* (data is non-empty at last_mut().unwrap(): a word is pushed whenever
\* number_of_bits & 63 = 0, and number_of_bits > 0 only after a push.)
add_value(d, nb, value, n) ==
    LET fresh == (nb % WordBits = 0)
        d1 == IF fresh THEN Append(d, {}) ELSE d
        nb1 == IF fresh /\ Len(d1) = 1 THEN 0 ELSE nb
        taken_bits == nb1 % WordBits
        remaining_bits == WordBits - taken_bits
        d2 == [d1 EXCEPT ![Len(d1)] = @ \cup Shl(value, taken_bits)]
        d3 == IF n > remaining_bits
              THEN Append(d2, Shr(value, remaining_bits))
              ELSE d2
    IN  [data |-> d3, number_of_bits |-> nb1 + n]

-----------------------------------------------------------------------------
(* HuffmanUnitCode *)

\* number_of_bits of a HuffmanUnitCode is a u8.
U8Range == 256

\* HuffmanUnitCode { code: 0, number_of_bits: 0 }
ZeroCode == [code |-> {}, number_of_bits |-> 0]

\* Whether add_msb panics: with overflow checks on (a debug build),
\* 1 << number_of_bits panics once number_of_bits reaches 64, and
\* number_of_bits += 1 panics at 255.
add_msb_panics(uc, checks) ==
    checks /\ (uc.number_of_bits >= WordBits \/ uc.number_of_bits + 1 >= U8Range)

\* The same, but the new bit is put below the bits of the code
\* (add_bit_zero / add_bit_one: code << 1 | bit).
add_msb_as_lsb(uc, bit) ==
    [code |-> Shl(uc.code, 1) \cup (IF bit = 1 THEN {0} ELSE {}),
     number_of_bits |-> (uc.number_of_bits + 1) % U8Range]

\* add_msb(bit): the bit becomes bit number_of_bits of the code. Without
\* overflow checks the shift amount wraps to number_of_bits mod 64 and the
\* u8 wraps to 0.
add_msb(uc, bit) ==
    LET sh == uc.number_of_bits % WordBits
    IN  [code |-> (uc.code \ {sh}) \cup (IF bit = 1 THEN {sh} ELSE {}),
         number_of_bits |-> (uc.number_of_bits + 1) % U8Range]

-----------------------------------------------------------------------------
(* Frequencies and leaves *)

\* The symbols of the texts.
AlphaSeq == <<"a", "b", "c", "d">>
Alphabet == {AlphaSeq[i] : i \in 1..Len(AlphaSeq)}

\* The symbols a text holds.
Symbols(t) == {t[i] : i \in 1..Len(t)}

\* The body of the loop of compute_frequencies: a first occurrence inserts
\* the count 0, and the count is incremented.
FreqStep(m, c) ==
    IF c \in DOMAIN m THEN [m EXCEPT ![c] = @ + 1] ELSE (c :> 1) @@ m

\* The loop of compute_frequencies over the characters lo..hi, in order.
\* (Here and in the other loops over a text or a buffer the range is halved
\* only to keep the evaluation shallow: the bodies are applied one after the
\* other, in index order, the first half being evaluated before the second
\* starts.)
RECURSIVE FreqRange(_, _, _, _)
FreqRange(t, lo, hi, m) ==
    IF lo > hi THEN m
    ELSE IF lo = hi THEN FreqStep(m, t[lo])
    ELSE LET mid == (lo + hi) \div 2
             left == FreqRange(t, lo, mid, m)
         IN  IF DOMAIN left # {} THEN FreqRange(t, mid + 1, hi, left) ELSE left

compute_frequencies(t) == FreqRange(t, 1, Len(t), EmptyMap)

\* A leaf HuffmanNode.
Leaf(symbol, freq) ==
    [weight |-> freq, symbol |-> Some(symbol), left |-> None, right |-> None]

\* The orders in which a HashMap with the keys S may be iterated.
Orders(S) ==
    {f \in [1..Cardinality(S) -> S] :
        \A i, j \in 1..Cardinality(S) : i # j => f[i] # f[j]}

\* get_huffman_leaves: one leaf per entry of the frequency map, in the order
\* `order` in which the map is iterated.
get_huffman_leaves(t, order) ==
    LET freqs == compute_frequencies(t)
    IN  [i \in 1..Len(order) |-> Leaf(order[i], freqs[order[i]])]

-----------------------------------------------------------------------------
(* quick_sort and partition, with the comparator |x, y| x.weight < y.weight *)

Swap(v, i, j) == [v EXCEPT ![i] = v[j], ![j] = v[i]]

\* The loop of partition, from index i on (indices are 1-based here:
\* the pivot is at Len(v), store is the 1-based store_index).
RECURSIVE PartitionLoop(_, _, _)
PartitionLoop(v, i, store) ==
    IF i >= Len(v) THEN [v |-> Swap(v, store, Len(v)), store_index |-> store]
    ELSE IF v[i].weight < v[Len(v)].weight
         THEN PartitionLoop(Swap(v, i, store), i + 1, store + 1)
         ELSE PartitionLoop(v, i + 1, store)

\* partition: the middle element is the pivot; it is swapped to the end,
\* the elements below it are moved to the front, and it is swapped back.
\* store_index is the pivot's 1-based place.
partition(v) ==
    LET pivot_index == (Len(v) \div 2) + 1
    IN  PartitionLoop(Swap(v, pivot_index, Len(v)), 1, 1)

\* A sort that leaves the slice as it is.
quick_sort_none(v) == v

RECURSIVE quick_sort(_)
quick_sort(v) ==
    IF Len(v) >= 2
    THEN LET p == partition(v)
         IN  quick_sort(SubSeq(p.v, 1, p.store_index - 1))
             \o <<p.v[p.store_index]>>
             \o quick_sort(SubSeq(p.v, p.store_index + 1, Len(v)))
    ELSE v

-----------------------------------------------------------------------------
(* take_smallest and construct_huffman_tree *)

\* take_smallest that takes the second list's front also when the two
\* fronts weigh the same.
take_smallest_tie_second(first, second) ==
    IF first = <<>> \/ (second # <<>> /\ first[1].weight >= second[1].weight)
    THEN IF second = <<>>
         THEN [panic |-> TRUE, node |-> None, first |-> first, second |-> second]
         ELSE [panic |-> FALSE, node |-> Some(Head(second)),
               first |-> first, second |-> Tail(second)]
    ELSE [panic |-> FALSE, node |-> Some(Head(first)),
          first |-> Tail(first), second |-> second]

\* take_smallest that takes from the first list whenever it holds a node.
take_smallest_first(first, second) ==
    IF first = <<>>
    THEN IF second = <<>>
         THEN [panic |-> TRUE, node |-> None, first |-> first, second |-> second]
         ELSE [panic |-> FALSE, node |-> Some(Head(second)),
               first |-> first, second |-> Tail(second)]
    ELSE [panic |-> FALSE, node |-> Some(Head(first)),
          first |-> Tail(first), second |-> second]

\* take_smallest(first, second): the node removed and the two lists after
\* the call. Vec::remove(0) on an empty Vec panics.
take_smallest(first, second) ==
    IF first = <<>> \/ (second # <<>> /\ first[1].weight > second[1].weight)
    THEN IF second = <<>>
         THEN [panic |-> TRUE, node |-> None, first |-> first, second |-> second]
         ELSE [panic |-> FALSE, node |-> Some(Head(second)),
               first |-> first, second |-> Tail(second)]
    ELSE [panic |-> FALSE, node |-> Some(Head(first)),
          first |-> Tail(first), second |-> second]

\* The internal node made of one and two.
NewNode(n1, n2) ==
    [weight |-> n1.weight + n2.weight, symbol |-> None,
     left |-> Some(n1), right |-> Some(n2)]

\* The loop condition of construct_huffman_tree.
LoopCond(lv, im) == Len(lv) > 0 \/ Len(im) > 1

\* The loop of construct_huffman_tree and the pop().unwrap() after it.
RECURSIVE BuildLoop(_, _)
BuildLoop(lv, im) ==
    IF LoopCond(lv, im)
    THEN LET t1 == take_smallest(lv, im)
         IN  IF t1.panic THEN [panic |-> "remove_from_empty", root |-> None]
             ELSE LET t2 == take_smallest(t1.first, t1.second)
                  IN  IF t2.panic
                      THEN [panic |-> "remove_from_empty", root |-> None]
                      ELSE BuildLoop(t2.first,
                                     Append(t2.second,
                                            NewNode(t1.node[1], t2.node[1])))
    ELSE IF im = <<>> THEN [panic |-> "unwrap_none", root |-> None]
         ELSE [panic |-> "none", root |-> Some(im[Len(im)])]

\* construct_huffman_tree(text), the leaves coming in the order `order`.
construct_huffman_tree(t, order) ==
    BuildLoop(quick_sort(get_huffman_leaves(t, order)), <<>>)

-----------------------------------------------------------------------------
(* The code table *)

\* dfs_huffman_tree in which the right branch adds the bit 0 like the left.
RECURSIVE dfs_huffman_tree_zero(_, _, _)
dfs_huffman_tree_zero(node, curr_unit_code, res) ==
    IF node.left = None /\ node.right = None
    THEN (node.symbol[1] :> curr_unit_code) @@ res
    ELSE LET r1 == IF node.left # None
                   THEN dfs_huffman_tree_zero(node.left[1],
                                              add_msb(curr_unit_code, 0), res)
                   ELSE res
         IN  IF node.right # None
             THEN dfs_huffman_tree_zero(node.right[1],
                                        add_msb(curr_unit_code, 0), r1)
             ELSE r1

\* dfs_huffman_tree(node, curr_unit_code, result): the result map after the
\* call. The code is passed by value; a leaf inserts it under its symbol.
\* (add_msb cannot overflow here: a tree over the alphabet is less than 64
\* deep.)
RECURSIVE dfs_huffman_tree(_, _, _)
dfs_huffman_tree(node, curr_unit_code, res) ==
    IF node.left = None /\ node.right = None
    THEN (node.symbol[1] :> curr_unit_code) @@ res
    ELSE LET r1 == IF node.left # None
                   THEN dfs_huffman_tree(node.left[1],
                                         add_msb(curr_unit_code, 0), res)
                   ELSE res
         IN  IF node.right # None
             THEN dfs_huffman_tree(node.right[1],
                                   add_msb(curr_unit_code, 1), r1)
             ELSE r1

get_encoding_from_huffman_tree(tree) ==
    dfs_huffman_tree(tree, ZeroCode, EmptyMap)

\* get_huffman_encoding(text): the panic it ends in, or the code table.
get_huffman_encoding(t, order) ==
    LET tree == construct_huffman_tree(t, order)
    IN  IF tree.panic # "none"
        THEN [panic |-> tree.panic, map |-> EmptyMap]
        ELSE [panic |-> "none",
              map |-> get_encoding_from_huffman_tree(tree.root[1])]

-----------------------------------------------------------------------------
(* HuffmanEncoding::encode and decode *)

\* The body of the loop of encode: the character's code is appended with
\* add_value; a character without a code panics (expect), which ends
\* the loop.
EncodeStep(m, c, buf) ==
    IF buf.panic # "none" THEN buf
    ELSE IF c \notin DOMAIN m
         THEN [buf EXCEPT !.panic = "character_not_found"]
         ELSE LET uc == m[c]
                  b == add_value(buf.data, buf.number_of_bits,
                                 uc.code, uc.number_of_bits)
              IN  [data |-> b.data,
                   number_of_bits |-> b.number_of_bits,
                   calls |-> Append(buf.calls, <<uc.code, uc.number_of_bits>>),
                   panic |-> "none"]

\* The loop of encode over the characters lo..hi, in order.
RECURSIVE EncodeRange(_, _, _, _, _)
EncodeRange(t, m, lo, hi, buf) ==
    IF lo > hi THEN buf
    ELSE IF lo = hi THEN EncodeStep(m, t[lo], buf)
    ELSE LET mid == (lo + hi) \div 2
             left == EncodeRange(t, m, lo, mid, buf)
         IN  IF left.panic # "none" THEN left
             ELSE EncodeRange(t, m, mid + 1, hi, left)

\* encode(text): the panic of the tree construction, which leaves the object
\* as it was, or the new buffer and code table.
encode(t, order) ==
    LET enc == get_huffman_encoding(t, order)
    IN  IF enc.panic # "none"
        THEN [panic |-> enc.panic, data |-> data,
              number_of_bits |-> number_of_bits, calls |-> calls, map |-> map]
        ELSE LET buf == EncodeRange(t, enc.map, 1, Len(t),
                                    [data |-> <<>>, number_of_bits |-> 0,
                                     calls |-> <<>>, panic |-> "none"])
             IN  [panic |-> buf.panic, data |-> buf.data,
                  number_of_bits |-> buf.number_of_bits, calls |-> buf.calls,
                  map |-> IF buf.panic = "none" THEN enc.map ELSE map]

\* The codes of a code table.
Range(m) == {m[s] : s \in DOMAIN m}

\* reverse_encoding_map: code -> symbol. Were two symbols to share a code,
\* the one inserted last would win, and the map's iteration order lets
\* any of them be last: every choice of one symbol per code.
reverse_encoding_map(m) ==
    {r \in [Range(m) -> DOMAIN m] : \A c \in Range(m) : m[r[c]] = c}

\* The state of decode before its loop.
DecodeStart ==
    [array_index |-> 0, bit_index |-> 0, unit_code |-> ZeroCode, i |-> 0,
     result |-> <<>>, panic |-> "none"]

\* One pass of the loop of decode, or nothing once the loop has ended (its
\* condition is false, or add_msb has panicked).
DecodeStep(d, nb, rev_map, checks, st) ==
    IF st.panic # "none" \/ ~(st.array_index < Len(d) /\ st.i < nb)
    THEN st
    ELSE IF add_msb_panics(st.unit_code, checks)
         THEN [st EXCEPT !.panic = "shift_overflow"]
         ELSE LET bit == IF st.bit_index \in d[st.array_index + 1]
                         THEN 1 ELSE 0
                  uc == add_msb(st.unit_code, bit)
                  bi == (st.bit_index + 1) % WordBits
                  hit == uc \in DOMAIN rev_map
              IN  [array_index |-> IF bi = 0 THEN st.array_index + 1
                                   ELSE st.array_index,
                   bit_index |-> bi,
                   unit_code |-> IF hit THEN ZeroCode ELSE uc,
                   i |-> st.i + 1,
                   result |-> IF hit THEN Append(st.result, rev_map[uc])
                              ELSE st.result,
                   panic |-> "none"]

\* The passes lo..hi of the loop of decode, in order.
RECURSIVE DecodeRange(_, _, _, _, _, _, _)
DecodeRange(d, nb, rev_map, checks, lo, hi, st) ==
    IF lo > hi THEN st
    ELSE IF lo = hi THEN DecodeStep(d, nb, rev_map, checks, st)
    ELSE LET mid == (lo + hi) \div 2
             left == DecodeRange(d, nb, rev_map, checks, lo, mid, st)
         IN  IF left.panic # "none" THEN left
             ELSE DecodeRange(d, nb, rev_map, checks, mid + 1, hi, left)

\* decode(): the state of its loop when it ends: the returned string, the
\* candidate code left, and the panic if add_msb overflowed. `checks` tells
\* whether the build checks arithmetic overflow. The loop makes at most
\* number_of_bits passes, i growing by one in each.
decode(d, nb, rev_map, checks) ==
    DecodeRange(d, nb, rev_map, checks, 1, nb, DecodeStart)

-----------------------------------------------------------------------------
(* Inputs *)

\* The symbols the words are written with.
WordAlphabet == {"a", "b", "c"}

\* The words: every sequence of at most MaxLen symbols.
Words == UNION {[1..n -> WordAlphabet] : n \in 0..MaxLen}

RECURSIVE Repeat(_, _)
Repeat(w, r) == IF r = 0 THEN <<>> ELSE w \o Repeat(w, r - 1)

\* The texts given to encode: each word, and each word RepLong times over.
Texts == {Repeat(w, r) : w \in Words, r \in {1, RepLong}}

\* The texts given to get_huffman_encoding: runs of each symbol of the
\* alphabet, at most MaxCount of each.
RECURSIVE Runs(_, _)
Runs(cnt, i) ==
    IF i > Len(AlphaSeq) THEN <<>>
    ELSE Repeat(<<AlphaSeq[i]>>, cnt[AlphaSeq[i]]) \o Runs(cnt, i + 1)

RunTexts == {Runs(cnt, 1) : cnt \in [Alphabet -> 0..MaxCount]}

\* The (value, number_of_bits) pairs the caller appends around an encode:
\* one bit, 0 or 1.
ExtraInputs == {<<{}, 1>>, <<{0}, 1>>}

\* The (value, number_of_bits) pairs appended to an empty buffer: 1, 2 and 3
\* in 2 bits, 2^59 and 2^60 - 1 in 60 bits, 1 and 2^64 - 1 in 64 bits, and
\* 4 in 2 bits, which does not fit its width.
PackInputs ==
    {<<{0}, 2>>, <<{1}, 2>>, <<{0, 1}, 2>>,
     <<{59}, 60>>, <<0..59, 60>>,
     <<{0}, WordBits>>, <<0..(WordBits - 1), WordBits>>,
     <<{2}, 2>>}

-----------------------------------------------------------------------------
(* The object: HuffmanEncoding { data: Vec::new(), number_of_bits: 0,
   map: HashMap::new() } and the calls made on it *)

ObjInit ==
    /\ data = <<>>
    /\ number_of_bits = 0
    /\ map = EmptyMap
    /\ text = <<>>
    /\ encoded = FALSE
    /\ extra = 0
    /\ calls = <<>>
    /\ op = "new"
    /\ outcome = "ok"
    /\ result = <<>>
    /\ pending = 0

TreeIdle ==
    /\ input = <<>>
    /\ leaves = <<>>
    /\ inter = <<>>
    /\ one = None
    /\ two = None
    /\ root = None
    /\ pc = "idle"
    /\ table = EmptyMap
    /\ last_take = None

Init == ObjInit /\ TreeIdle

\* The caller calls add_value(value, n).
AddValue(value, n) ==
    LET b == add_value(data, number_of_bits, value, n)
    IN  /\ data' = b.data
        /\ number_of_bits' = b.number_of_bits
        /\ calls' = Append(calls, <<value, n>>)
        /\ extra' = extra + 1
        /\ op' = "add_value"
        /\ outcome' = "ok"
        /\ result' = <<>>
        /\ pending' = 0
        /\ UNCHANGED <<map, text, encoded>>
        /\ UNCHANGED treevars

\* The caller calls encode(t); the frequency map is iterated in the order
\* `order`. An object is encoded once, as in test_huffman_encode_decode:
\* encode overwrites data, number_of_bits and map, or panics before it
\* touches the object.
Encode(t, order) ==
    /\ ~encoded
    /\ LET e == encode(t, order)
       IN  /\ data' = e.data
           /\ number_of_bits' = e.number_of_bits
           /\ map' = e.map
           /\ calls' = e.calls
           /\ outcome' = IF e.panic = "none" THEN "ok" ELSE e.panic
           /\ text' = IF e.panic = "none" THEN t ELSE text
           /\ extra' = IF e.panic = "none" THEN 0 ELSE extra
    /\ encoded' = TRUE
    /\ op' = "encode"
    /\ result' = <<>>
    /\ pending' = 0
    /\ UNCHANGED treevars

\* The caller calls decode().
Decode(rev_map, checks) ==
    LET r == decode(data, number_of_bits, rev_map, checks)
    IN  /\ op' = "decode"
        /\ outcome' = IF r.panic = "none" THEN "ok" ELSE r.panic
        /\ result' = r.result
        /\ pending' = r.unit_code.number_of_bits
        /\ UNCHANGED <<data, number_of_bits, map, text, encoded, extra, calls>>
        /\ UNCHANGED treevars

Next ==
    \/ /\ extra < MaxExtra
       /\ \E c \in ExtraInputs : AddValue(c[1], c[2])
    \/ \E t \in Texts : \E order \in Orders(Symbols(t)) : Encode(t, order)
    \/ \E rev_map \in reverse_encoding_map(map) : \E checks \in BOOLEAN :
           Decode(rev_map, checks)

Spec == Init /\ [][Next]_vars

\* add_value calls on a new object.
NextPack ==
    /\ Len(calls) < MaxCalls
    /\ \E c \in PackInputs : AddValue(c[1], c[2])

SpecPack == Init /\ [][NextPack]_vars

-----------------------------------------------------------------------------
(* get_huffman_encoding(input), one call at a time: quick_sort, the two
   take_smallest calls and the push of each pass of the loop, the pop of the
   root, and the traversal. *)

TreeInit ==
    /\ ObjInit
    /\ input \in RunTexts
    /\ \E order \in Orders(Symbols(input)) :
           leaves = get_huffman_leaves(input, order)
    /\ inter = <<>>
    /\ one = None
    /\ two = None
    /\ root = None
    /\ pc = "sort"
    /\ table = EmptyMap
    /\ last_take = None

\* quick_sort(&mut leaves, ...) and let mut intermediate_nodes = Vec::new().
SortLeaves ==
    /\ pc = "sort"
    /\ leaves' = quick_sort(leaves)
    /\ pc' = "loop"
    /\ UNCHANGED <<input, inter, one, two, root, table, last_take>>
    /\ UNCHANGED objvars

\* The loop condition holds: let one = take_smallest(...).
TakeOne ==
    /\ pc = "loop"
    /\ LoopCond(leaves, inter)
    /\ LET t == take_smallest(leaves, inter)
       IN  /\ one' = t.node
           /\ leaves' = t.first
           /\ inter' = t.second
           /\ pc' = IF t.panic THEN "panic_remove_from_empty" ELSE "take_two"
    /\ last_take' = Some([first |-> leaves, second |-> inter])
    /\ UNCHANGED <<input, two, root, table>>
    /\ UNCHANGED objvars

\* let two = take_smallest(...).
TakeTwo ==
    /\ pc = "take_two"
    /\ LET t == take_smallest(leaves, inter)
       IN  /\ two' = t.node
           /\ leaves' = t.first
           /\ inter' = t.second
           /\ pc' = IF t.panic THEN "panic_remove_from_empty" ELSE "push"
    /\ last_take' = Some([first |-> leaves, second |-> inter])
    /\ UNCHANGED <<input, one, root, table>>
    /\ UNCHANGED objvars

\* intermediate_nodes.push(new_node): one and two move into the new node.
PushNode ==
    /\ pc = "push"
    /\ inter' = Append(inter, NewNode(one[1], two[1]))
    /\ one' = None
    /\ two' = None
    /\ pc' = "loop"
    /\ last_take' = None
    /\ UNCHANGED <<input, leaves, root, table>>
    /\ UNCHANGED objvars

\* The loop condition fails: Rc::new(intermediate_nodes.pop().unwrap()).
PopRoot ==
    /\ pc = "loop"
    /\ ~LoopCond(leaves, inter)
    /\ IF inter = <<>>
       THEN /\ pc' = "panic_unwrap_none"
            /\ UNCHANGED <<inter, root>>
       ELSE /\ root' = Some(inter[Len(inter)])
            /\ inter' = SubSeq(inter, 1, Len(inter) - 1)
            /\ pc' = "dfs"
    /\ UNCHANGED <<input, leaves, one, two, table, last_take>>
    /\ UNCHANGED objvars

\* get_encoding_from_huffman_tree(tree).
Traverse ==
    /\ pc = "dfs"
    /\ table' = get_encoding_from_huffman_tree(root[1])
    /\ pc' = "done"
    /\ UNCHANGED <<input, leaves, inter, one, two, root, last_take>>
    /\ UNCHANGED objvars

NextTree == SortLeaves \/ TakeOne \/ TakeTwo \/ PushNode \/ PopRoot \/ Traverse

SpecTree == TreeInit /\ [][NextTree]_vars

-----------------------------------------------------------------------------
(* Properties *)

\* The text has at least two distinct symbols.
TwoSymbols(t) == Cardinality(Symbols(t)) >= 2

\* The number of bits the first k add_value calls appended.
RECURSIVE Offset(_)
Offset(k) == IF k = 0 THEN 0 ELSE Offset(k - 1) + calls[k][2]

\* C1. Round trip: when decode is called on an object whose buffer and code
\* table are as encode(text) left them, and text has at least two distinct
\* symbols, decode returns normally and returns exactly text.
C1_RoundTrip ==
    (op = "decode" /\ extra = 0 /\ TwoSymbols(text))
        => (outcome = "ok" /\ result = text /\ pending = 0)

\* A text of three distinct symbols whose code words fill more than one
\* word, one of them split between the two words, has been encoded and
\* decoded.
C1_Witness ==
    /\ op = "decode"
    /\ extra = 0
    /\ Cardinality(Symbols(text)) = 3
    /\ Len(data) >= 2
    /\ \E k \in 1..Len(calls) : Offset(k - 1) < WordBits /\ Offset(k) > WordBits
    /\ result = text

\* The first n bits of a code value: value mod 2^n.
LowBits(value, n) == {i \in value : i < n}

\* C2. Prefix-free codes: in the table get_huffman_encoding returns for a
\* text with at least two distinct symbols, for distinct symbols a and b
\* with number_of_bits la <= lb, the first la bits of b's code differ from
\* a's code.
C2_PrefixFree ==
    (pc = "done" /\ TwoSymbols(input))
        => \A a, b \in DOMAIN table :
               (a # b /\ table[a].number_of_bits <= table[b].number_of_bits)
                   => LowBits(table[b].code, table[a].number_of_bits)
                          # table[a].code

\* A table of four symbols with code words of one, two and three bits.
C2_Witness ==
    /\ pc = "done"
    /\ DOMAIN table = Alphabet
    /\ {table[x].number_of_bits : x \in DOMAIN table} = {1, 2, 3}

\* C3. Weight ordering: in the table returned for a text with at least two
\* distinct symbols, a symbol that occurs more often than another has a
\* code no longer than the other's.
C3_WeightOrdering ==
    (pc = "done" /\ TwoSymbols(input))
        => LET freqs == compute_frequencies(input)
           IN  \A a, b \in DOMAIN table :
                   freqs[a] > freqs[b]
                       => table[a].number_of_bits <= table[b].number_of_bits

\* A table in which a more frequent symbol has a strictly shorter code,
\* built from leaves with equal weights among them.
C3_Witness ==
    /\ pc = "done"
    /\ LET freqs == compute_frequencies(input)
       IN  /\ \E a, b \in DOMAIN table :
                  /\ freqs[a] > freqs[b]
                  /\ table[a].number_of_bits < table[b].number_of_bits
           /\ \E a, b \in DOMAIN table : a # b /\ freqs[a] = freqs[b]

\* Every add_value call so far gave a value that fits its width:
\* value < 2^number_of_bits.
Fits == \A k \in 1..Len(calls) : calls[k][1] \subseteq 0..(calls[k][2] - 1)

\* Bit j of the buffer, least significant bit first, word by word.
BufferBit(j) == (j % WordBits) \in data[(j \div WordBits) + 1]

\* Bit j of the concatenation of the calls' values, low bit first.
ExpectedBit(j) ==
    LET k == CHOOSE c \in 1..Len(calls) : Offset(c - 1) <= j /\ j < Offset(c)
    IN  (j - Offset(k - 1)) \in calls[k][1]

\* C4. Bit packing: after add_value calls on an empty buffer, each with a
\* value that fits its width, number_of_bits is the sum of the widths, the
\* buffer has a word for every bit, and the bits of the buffer are the
\* calls' values one after the other (so no call changed an earlier bit).
C4_BitPacking ==
    Fits => /\ number_of_bits = Offset(Len(calls))
            /\ Len(data) * WordBits >= number_of_bits
            /\ \A j \in 0..(number_of_bits - 1) : BufferBit(j) = ExpectedBit(j)

\* A 60-bit value appended at bit 62 has been split: its two low bits are
\* in the first word, the rest starts the second.
C4_Witness ==
    /\ calls = << <<{0, 1}, 2>>, <<{59}, 60>>, <<0..59, 60>> >>
    /\ data = << (0..1) \cup {61} \cup (62..63), 0..57 >>
    /\ number_of_bits = 122

\* ceil(number_of_bits / 64)
CeilWords == (number_of_bits + WordBits - 1) \div WordBits

\* C5 as amended. After every add_value call on an initially empty buffer
\* the number of words is ceil(number_of_bits / 64), also right after a call
\* that lands on a 64-bit boundary.
C5_WordCount == (op = "add_value") => Len(data) = CeilWords

\* A call has landed on the second 64-bit boundary.
C5_Witness ==
    /\ op = "add_value"
    /\ number_of_bits = 2 * WordBits
    /\ Len(data) = 2

\* C5 as stated: one word fewer than ceil(number_of_bits / 64) right after
\* a call that lands on a 64-bit boundary.
C5_Original ==
    (op = "add_value")
        => Len(data) = IF number_of_bits % WordBits # 0
                       THEN CeilWords ELSE CeilWords - 1

\* C6. Degenerate input: for a text with fewer than two distinct symbols the
\* tree construction does not end in a panic (the removal from an empty
\* list in take_smallest, the pop of the root from an empty list).
C6_DegenerateDefined ==
    ~TwoSymbols(input)
        => pc \notin {"panic_remove_from_empty", "panic_unwrap_none"}

\* C7. CorruptBuffer: a decode whose scan ends with a non-empty, unmatched
\* candidate code does not return normally.
C7_CorruptBufferReported ==
    (op = "decode" /\ pending > 0) => outcome # "ok"

\* C8. Decode before encode: decode on an object on which encode was never
\* called (empty table, empty data, number_of_bits 0) does not return
\* normally.
C8_DecodeBeforeEncodeFails ==
    (op = "decode" /\ ~encoded /\ extra = 0) => outcome # "ok"

\* A list of nodes is non-decreasing in weight.
Sorted(s) == \A i \in 1..(Len(s) - 1) : s[i].weight <= s[i + 1].weight

Weights(s) == {s[i].weight : i \in 1..Len(s)}

\* The node the last take_smallest call returned.
Taken == IF pc = "take_two" THEN one[1] ELSE two[1]

\* C9. Two-queue minimum: for a text with at least two distinct symbols, at
\* the start of every pass of the loop the leaves and the internal nodes
\* are each non-decreasing in weight; every take_smallest call returns a
\* node of the least weight in the two lists; every new internal node
\* weighs the sum of its children and no less than the last internal node.
C9_TwoQueueMinimum ==
    TwoSymbols(input) =>
        /\ (pc = "loop") => (Sorted(leaves) /\ Sorted(inter))
        /\ (pc \in {"take_two", "push"})
               => \A w \in Weights(last_take[1].first)
                           \cup Weights(last_take[1].second) :
                      Taken.weight <= w
        /\ (pc = "push")
               => \A w \in Weights(inter) : one[1].weight + two[1].weight >= w
        /\ (pc = "loop" /\ inter # <<>>)
               => LET n == inter[Len(inter)]
                  IN  n.weight = n.left[1].weight + n.right[1].weight

\* An internal node was taken first and a leaf second.
C9_Witness ==
    /\ pc = "push"
    /\ TwoSymbols(input)
    /\ one[1].symbol = None
    /\ two[1].symbol # None

\* The last take_smallest call took the front of its first list.
TookFirst ==
    /\ Taken = Head(last_take[1].first)
    /\ leaves = Tail(last_take[1].first)
    /\ inter = last_take[1].second

\* The last take_smallest call took the front of its second list.
TookSecond ==
    /\ Taken = Head(last_take[1].second)
    /\ inter = Tail(last_take[1].second)
    /\ leaves = last_take[1].first

\* Both lists held a node when take_smallest was last called, and the
\* fronts weighed the same.
Tie ==
    /\ pc \in {"take_two", "push"}
    /\ last_take[1].first # <<>>
    /\ last_take[1].second # <<>>
    /\ last_take[1].first[1].weight = last_take[1].second[1].weight

\* C10 as amended. Tie rule: when both lists hold a node and the fronts
\* weigh the same, take_smallest removes and returns the front of the first
\* list (the sorted leaves); when the fronts differ, the lighter front;
\* when one list is empty, the front of the other.
C10_TieRule ==
    (pc \in {"take_two", "push"}) =>
        LET f == last_take[1].first
            s == last_take[1].second
        IN  /\ (f # <<>> /\ s = <<>>) => TookFirst
            /\ (f = <<>> /\ s # <<>>) => TookSecond
            /\ (f # <<>> /\ s # <<>> /\ f[1].weight < s[1].weight) => TookFirst
            /\ (f # <<>> /\ s # <<>> /\ f[1].weight > s[1].weight) => TookSecond
            /\ (f # <<>> /\ s # <<>> /\ f[1].weight = s[1].weight) => TookFirst

\* take_smallest was called on a tie and took the leaf.
C10_Witness == Tie /\ TookFirst

\* C10 as stated: on a tie the front of the second list is taken.
C10_Original == Tie => TookSecond

====
